---- MODULE Spec2Model ----
(***************************************************************************)
(* FlavorDB acquisition routine of src/data/download.py                    *)
(* (download_flavordb): preflight request, sweep over the entity ID range  *)
(* with an on-disk cache of one JSON file per entity, and the fold of the  *)
(* cached documents into four tables.                                      *)
(*                                                                         *)
(* JSON values are tagged records [t |-> type, v |-> value]; a JSON object *)
(* is a TLA+ record under v, a JSON array a sequence, a JSON string a      *)
(* sequence of one-character strings.                                      *)
(***************************************************************************)
EXTENDS Integers, Sequences, FiniteSets, TLC

\* ------------------------------------------------------------------ bounds

\* Upper end of the swept ID range (FLAVORDB_MAX_ENTITY_ID is 1000 in the
\* source; the sweep is range(0, FLAVORDB_MAX_ENTITY_ID + 1)).
MaxEntityId == 26

\* Number of runs of download_flavordb over the same cache directory.
MaxRuns == 2

\* ------------------------------------------------------- program constants

\* len(errors) >= 20 in the bail-out test.
BreakerCount == 20

\* eid - errors[-20][0] < 25 in the bail-out test.
BreakerSpan == 25

IdRange == 0..MaxEntityId

\* ------------------------------------------------------------ JSON values

JInt(n) == [t |-> "int", v |-> n]
JStr(s) == [t |-> "str", v |-> s]
JList(s) == [t |-> "list", v |-> s]
JDict(r) == [t |-> "dict", v |-> r]
JNull == [t |-> "null", v |-> 0]

IsDict(x) == x.t = "dict"
IsList(x) == x.t = "list"

\* key in data (data a JSON object)
HasKey(d, k) == k \in DOMAIN d.v

\* data.get(key, default)
Get(d, k, default) == IF HasKey(d, k) THEN d.v[k] ELSE default

DigitChar == <<"0", "1", "2", "3", "4", "5", "6", "7", "8", "9">>

\* str(n) for a non-negative integer, as a sequence of characters.
RECURSIVE DigitChars(_)
DigitChars(n) ==
    IF n < 10 THEN <<DigitChar[n + 1]>>
    ELSE DigitChars(n \div 10) \o <<DigitChar[(n % 10) + 1]>>

\* ord(c) for the characters that occur in file names and descriptors.
Ord(c) ==
    CASE c = " " -> 32 [] c = "." -> 46 [] c = "@" -> 64
      [] c = "0" -> 48 [] c = "1" -> 49 [] c = "2" -> 50 [] c = "3" -> 51
      [] c = "4" -> 52 [] c = "5" -> 53 [] c = "6" -> 54 [] c = "7" -> 55
      [] c = "8" -> 56 [] c = "9" -> 57
      [] c = "E" -> 69 [] c = "F" -> 70 [] c = "N" -> 78 [] c = "O" -> 79
      [] c = "P" -> 80 [] c = "R" -> 82 [] c = "S" -> 83 [] c = "T" -> 84
      [] c = "_" -> 95
      [] c = "e" -> 101 [] c = "f" -> 102 [] c = "g" -> 103 [] c = "j" -> 106
      [] c = "n" -> 110 [] c = "o" -> 111 [] c = "r" -> 114 [] c = "s" -> 115
      [] c = "w" -> 119
      [] OTHER -> 127

\* Python's str < str: lexicographic by code point, a proper prefix first.
RECURSIVE StrLess(_, _)
StrLess(a, b) ==
    IF b = << >> THEN FALSE
    ELSE IF a = << >> THEN TRUE
    ELSE IF Ord(Head(a)) # Ord(Head(b)) THEN Ord(Head(a)) < Ord(Head(b))
    ELSE StrLess(Tail(a), Tail(b))

\* ----------------------------------------------------- the remote service

\* The flavor_profile strings the service hands out: "Sw@ f @@g", "", "g@Sw".
ProfileA == <<"S", "w", "@", " ", "f", " ", "@", "@", "g">>
ProfileB == <<"g", "@", "S", "w">>

\* One molecule object of entity i: pubchem ids repeat every 8 entities, the
\* common_name is particular to the entity.
MolKeys(i) ==
    {"pubchem_id", "common_name", "smile"}
        \cup (IF i % 4 = 2 THEN {} ELSE {"flavor_profile"})
        \cup (IF i % 2 = 0 THEN {"molecular_weight"} ELSE {})

MolOf(i) ==
    JDict([k \in MolKeys(i) |->
        CASE k = "pubchem_id" -> JInt(40 + (i % 8))
          [] k = "common_name" -> JStr(<<"n">> \o DigitChars(i))
          [] k = "smile" -> JStr(<<"O">>)
          [] k = "molecular_weight" -> JInt(18 + i)
          [] OTHER -> JStr(CASE i % 4 = 0 -> ProfileA
                             [] i % 4 = 1 -> << >>
                             [] OTHER -> ProfileB)])

\* A molecule object without pubchem_id.
MolNoId == JDict([common_name |-> JStr(<<"w">>), flavor_profile |-> JStr(<<"w">>)])

MoleculesOf(i) ==
    CASE i % 8 = 7 -> << >>
      [] i % 4 = 0 -> <<MolOf(i), MolNoId>>
      [] i % 4 = 1 -> <<MolOf(i), MolOf(i)>>
      [] OTHER -> <<MolOf(i)>>

EntityKeys(i) ==
    {"entity_id", "molecules"}
        \cup (IF i % 3 = 0 THEN {"entity_alias_readable", "entity_alias"} ELSE {})
        \cup (IF i % 3 = 1 THEN {"entity_alias"} ELSE {})
        \cup (IF i % 2 = 0 THEN {"category"} ELSE {})

\* The entity document of ID i as the service returns it.
EntityDoc(i) ==
    JDict([k \in EntityKeys(i) |->
        CASE k = "entity_id" -> JInt(i)
          [] k = "molecules" -> JList(MoleculesOf(i))
          [] k = "entity_alias_readable" -> JStr(<<"E">> \o DigitChars(i))
          [] k = "entity_alias" -> JStr(<<"e">> \o DigitChars(i))
          [] OTHER -> JStr(<<"F">>)])

\* What the service can answer to GET entities_json?id=i.
Modes ==
    {"ok", "okdata", "oklax", "oklist", "okhtmlct", "missing", "idonly",
     "list2", "html", "garbage", "h400", "h404", "h500", "h503",
     "transport", "timeout"}

OkResp(ctype, form, val) ==
    [res |-> "ok", code |-> 200, ctype |-> ctype, form |-> form, val |-> val,
     msg |-> "none"]
HttpResp(code) ==
    [res |-> "http", code |-> code, ctype |-> "none", form |-> "none",
     val |-> JNull, msg |-> "none"]
FailResp(msg) ==
    [res |-> "exc", code |-> 0, ctype |-> "none", form |-> "none",
     val |-> JNull, msg |-> msg]

\* The outcome of urlopen(...) + resp.read().decode(...) under mode m.
\* form is what the body text is: "html" (its stripped text starts with "<!"
\* or "<html"), "json" (json.loads succeeds, val is the decoded value) or
\* "text" (json.loads raises JSONDecodeError).
Respond(m, i) ==
    CASE m = "ok" -> OkResp("application/json", "json", EntityDoc(i))
      [] m = "okdata" ->
            OkResp("application/json", "json", JDict([data |-> EntityDoc(i)]))
      [] m = "oklax" ->
            OkResp("application/json", "json",
                   JDict([status |-> JStr(<<"o">>),
                          result |-> JDict([entity_id |-> JInt(i)])]))
      [] m = "oklist" -> OkResp("application/json", "json", JList(<<EntityDoc(i)>>))
      [] m = "okhtmlct" -> OkResp("text/html", "json", EntityDoc(i))
      [] m = "missing" ->
            OkResp("application/json", "json", JDict([error |-> JStr(<<"n">>)]))
      [] m = "idonly" ->
            OkResp("application/json", "json", JDict([entity_id |-> JInt(i)]))
      [] m = "list2" ->
            OkResp("application/json", "json",
                   JList(<<EntityDoc(i), EntityDoc(i)>>))
      [] m = "html" -> OkResp("text/html", "html", JNull)
      [] m = "garbage" -> OkResp("application/json", "text", JNull)
      [] m = "h400" -> HttpResp(400)
      [] m = "h404" -> HttpResp(404)
      [] m = "h500" -> HttpResp(500)
      [] m = "h503" -> HttpResp(503)
      [] m = "transport" -> FailResp("urlopen error")
      [] OTHER -> FailResp("timed out")

\* ------------------------------------------------------- extract_entity

WrapperKeys == <<"data", "entity", "result">>

\* The first wrapper key, from position k on, under which data holds a
\* mapping with "entity_id"; 0 when there is none.
RECURSIVE FirstWrapper(_, _)
FirstWrapper(data, k) ==
    IF k > Len(WrapperKeys) THEN 0
    ELSE IF /\ HasKey(data, WrapperKeys[k])
            /\ IsDict(data.v[WrapperKeys[k]])
            /\ HasKey(data.v[WrapperKeys[k]], "entity_id")
         THEN k
         ELSE FirstWrapper(data, k + 1)

\* extract_entity(data) -> (entity_dict, is_valid)
RECURSIVE extract_entity(_)
extract_entity(data) ==
    IF IsDict(data)
    THEN IF HasKey(data, "entity_id") /\ HasKey(data, "molecules")
         THEN [entity |-> data, valid |-> TRUE]
         ELSE IF FirstWrapper(data, 1) # 0
              THEN [entity |-> data.v[WrapperKeys[FirstWrapper(data, 1)]],
                    valid |-> TRUE]
              ELSE [entity |-> data, valid |-> FALSE]
    ELSE IF IsList(data) /\ Len(data.v) = 1 /\ IsDict(data.v[1])
         THEN extract_entity(data.v[1])
         ELSE [entity |-> data, valid |-> FALSE]

\* ------------------------------------------------- the cache directory

\* A file of entities_raw: absent, opened for writing and not yet complete
\* ("partial": any proper prefix of the dumped text, the empty file
\* included), or complete ("full", doc is the dumped value).
NoFile == [st |-> "absent", doc |-> JNull]
PartialFile == [st |-> "partial", doc |-> JNull]
FullFile(doc) == [st |-> "full", doc |-> doc]

\* Exists with every path taken for missing.
ExistsNever(f) == FALSE

\* Path.exists()
Exists(f) == f.st # "absent"

JsonSuffix == <<".", "j", "s", "o", "n">>

\* f"{eid}.json"
CacheName(id) == DigitChars(id) \o JsonSuffix

\* "TEST_RESPONSE.json"
TestName ==
    <<"T", "E", "S", "T", "_", "R", "E", "S", "P", "O", "N", "S", "E">> \o JsonSuffix

\* raw_dir.glob("*.json"): the files of the directory, in directory order.
GlobJson(c, tf) ==
    LET ids == SelectSeq([k \in 1..(MaxEntityId + 1) |-> k - 1],
                         LAMBDA i : Exists(c[i]))
        entries == [k \in 1..Len(ids) |->
                       [name |-> CacheName(ids[k]), st |-> c[ids[k]].st,
                        doc |-> c[ids[k]].doc]]
    IN  IF Exists(tf)
        THEN <<[name |-> TestName, st |-> tf.st, doc |-> tf.doc]>> \o entries
        ELSE entries

\* The order of two paths of one directory under sorted().
PathLess(a, b) == StrLess(a.name, b.name)

\* json_files = sorted(raw_dir.glob("*.json"))
json_files(c, tf) == SortSeq(GlobJson(c, tf), PathLess)

\* ------------------------------------------------------------ extraction

\* str.lower() of one character.
LowerChar(c) ==
    CASE c = "S" -> "s" [] c = "E" -> "e" [] c = "F" -> "f" [] c = "O" -> "o"
      [] OTHER -> c

Lower(s) == [k \in 1..Len(s) |-> LowerChar(s[k])]

RECURSIVE LStrip(_)
LStrip(s) == IF s # << >> /\ Head(s) = " " THEN LStrip(Tail(s)) ELSE s

RECURSIVE RStrip(_)
RStrip(s) ==
    IF s # << >> /\ s[Len(s)] = " " THEN RStrip(SubSeq(s, 1, Len(s) - 1)) ELSE s

\* str.strip()
Strip(s) == RStrip(LStrip(s))

\* fp.split("@"), cur the piece being read.
RECURSIVE Split(_, _)
Split(s, cur) ==
    IF s = << >> THEN <<cur>>
    ELSE IF Head(s) = "@" THEN <<cur>> \o Split(Tail(s), << >>)
    ELSE Split(Tail(s), Append(cur, Head(s)))

\* The descriptors of one flavor_profile string: split on "@", stripped,
\* lowercased, the empty ones dropped.
Descriptors(fp) ==
    IF fp = << >> THEN {}
    ELSE LET parts == Split(fp, << >>)
         IN  {Lower(Strip(parts[k])) : k \in 1..Len(parts)} \ {<< >>}

\* pid = mol.get("pubchem_id"); if pid is None: continue
HasPubchemId(mol) == HasKey(mol, "pubchem_id") /\ mol.v.pubchem_id # JNull

\* The molecules row of one molecule object.
MolRow(mol) ==
    <<mol.v.pubchem_id,
      Get(mol, "common_name", JStr(<< >>)),
      Get(mol, "smile", JStr(<< >>)),
      Get(mol, "molecular_weight", JStr(<< >>)),
      Get(mol, "functional_groups", JStr(<< >>))>>

\* f"entity_{eid}"
EntityPlaceholder(eid) ==
    JStr(<<"e", "n", "t", "i", "t", "y", "_">> \o DigitChars(eid.v))

\* json.load(fh) followed by data["entity_id"] succeeds on this file: the
\* text is complete JSON, and the value is a mapping with that key
\* (otherwise JSONDecodeError, TypeError or KeyError leaves the function).
Readable(f) == f.st = "full" /\ IsDict(f.doc) /\ HasKey(f.doc, "entity_id")

\* The entities row of one document (lines 309-314).
EntityRow(data) ==
    <<data.v.entity_id,
      Get(data, "entity_alias_readable",
          Get(data, "entity_alias", EntityPlaceholder(data.v.entity_id))),
      Get(data, "category", JStr(<<"u", "n", "k", "n", "o", "w", "n">>))>>

\* MolEntries with a molecule that a document lists again left out.
MolEntriesOncePerMolecule(data) ==
    LET kept == SelectSeq(Get(data, "molecules", JList(<< >>)).v, HasPubchemId)
        first == {k \in 1..Len(kept) :
                     \A j \in 1..(k - 1) : kept[j].v.pubchem_id # kept[k].v.pubchem_id}
    IN  [n \in 1..Cardinality(first) |->
            <<data.v.entity_id,
              kept[CHOOSE k \in first : Cardinality({j \in first : j <= k}) = n]>>]

\* The molecule objects of one document that pass line 318, each with the
\* document's entity_id, in the document's order.
MolEntries(data) ==
    LET kept == SelectSeq(Get(data, "molecules", JList(<< >>)).v, HasPubchemId)
    IN  [k \in 1..Len(kept) |-> <<data.v.entity_id, kept[k]>>]

\* The molecule objects met by the loop of line 305 from file k on, in
\* loop order.
RECURSIVE AllMolEntries(_, _)
AllMolEntries(files, k) ==
    IF k > Len(files) THEN << >>
    ELSE MolEntries(files[k].doc) \o AllMolEntries(files, k + 1)

\* Dedup with every row of a repeated pubchem_id thrown away.
DedupDropsRepeated(rows) ==
    SelectSeq(rows, LAMBDA r :
        Cardinality({k \in 1..Len(rows) : rows[k][1] = r[1]}) = 1)

\* Dedup with a later row replacing the row kept for its pubchem_id.
DedupKeepsLast(rows) ==
    LET last == {k \in 1..Len(rows) :
                    \A j \in (k + 1)..Len(rows) : rows[j][1] # rows[k][1]}
    IN  [n \in 1..Cardinality(last) |->
            rows[CHOOSE k \in last : Cardinality({j \in last : j <= k}) = n]]

\* seen_mols.values(): the first row of each pubchem_id, in order of first
\* occurrence (lines 342-345).
Dedup(rows) ==
    LET first == {k \in 1..Len(rows) :
                     \A j \in 1..(k - 1) : rows[j][1] # rows[k][1]}
    IN  [n \in 1..Cardinality(first) |->
            rows[CHOOSE k \in first : Cardinality({j \in first : j <= k}) = n]]

\* Tuple order of two (pubchem_id, descriptor) rows.
DescRowLess(a, b) ==
    \/ a[1].v < b[1].v
    \/ a[1].v = b[1].v /\ StrLess(a[2], b[2])

\* sorted(mol_desc)
SortedDesc(S) ==
    [n \in 1..Cardinality(S) |->
        CHOOSE x \in S : Cardinality({y \in S : DescRowLess(y, x)}) = n - 1]

\* Lines 296-345 and the rows handed to the four csv writers; ok is FALSE
\* when a file raises, which leaves the function before any table is
\* written.
ExtractTables(c, tf) ==
    LET files == json_files(c, tf)
        ok == \A k \in 1..Len(files) : Readable(files[k])
    IN  IF ~ok
        THEN [ok |-> FALSE, entities |-> << >>, molecules |-> << >>,
              entity_mol |-> << >>, mol_desc |-> << >>]
        ELSE LET entries == AllMolEntries(files, 1)
             IN  [ok |-> TRUE,
                  entities |-> [k \in 1..Len(files) |-> EntityRow(files[k].doc)],
                  molecules |->
                      Dedup([n \in 1..Len(entries) |-> MolRow(entries[n][2])]),
                  entity_mol |->
                      [n \in 1..Len(entries) |->
                          <<entries[n][1], entries[n][2].v.pubchem_id>>],
                  mol_desc |->
                      SortedDesc(UNION {
                          {<<entries[n][2].v.pubchem_id, d>> :
                              d \in Descriptors(
                                  Get(entries[n][2], "flavor_profile",
                                      JStr(<< >>)).v)} :
                          n \in 1..Len(entries)})]

\* ----------------------------------------------------------------- state

VARIABLES
    pc,          \* where download_flavordb is: "idle", "preflight", "sweep",
                 \* "writing" (detail_file open, json.dump running), "extract",
                 \* "returned" (preflight gave up), "done", "crashed", "killed"
    run,         \* number of runs started
    srv,         \* how the service answers, per entity ID
    cache,       \* entities_raw/{id}.json
    cache0,      \* entities_raw/{id}.json as this run found it
    testfile,    \* entities_raw/TEST_RESPONSE.json
    out,         \* the four csv files, and the run that wrote them
    pre,         \* how the preflight of this run ended
    eid,         \* loop variable of the sweep
    entity,      \* the entity being dumped while pc = "writing"
    downloaded, skipped, not_found, errors,
    requests,    \* urlopen calls of this run, per entity ID
    sleeps,      \* time.sleep(0.15) calls of this run
    tripped      \* the sweep left the loop through "Too many errors"

vars ==
    <<pc, run, srv, cache, cache0, testfile, out, pre, eid, entity, downloaded,
      skipped, not_found, errors, requests, sleeps, tripped>>

\* During a sweep the service answers srv.base, except for the IDs of one
\* window [srv.lo, srv.hi) where it answers srv.alt. The windows start
\* where errors holds one entry less than the bail-out count, or exactly
\* that many, and are one ID long or as long as it takes for the oldest
\* entry to fall out of the bail-out span.
ModeAt(s, i) == IF s.lo <= i /\ i < s.hi THEN s.alt ELSE s.base

Windows ==
    {<<0, 0>>} \cup
    {<<lo, lo + len>> : lo \in {BreakerCount - 1, BreakerCount},
                        len \in {1, BreakerSpan - BreakerCount + 1}}

\* The answers met inside a window.
WindowModes == {"ok", "garbage", "h404", "h503", "transport"}

Profiles ==
    {p \in {[base |-> b, alt |-> a, lo |-> w[1], hi |-> w[2]] :
                b \in Modes, a \in Modes, w \in Windows} :
        p.alt \in WindowModes \cup {p.base}}

NoTables ==
    [run |-> 0, entities |-> << >>, molecules |-> << >>,
     entity_mol |-> << >>, mol_desc |-> << >>]

Init ==
    /\ pc = "idle"
    /\ run = 0
    /\ srv \in {p \in Profiles : p.lo = p.hi <=> p.alt = p.base}
    /\ cache = [i \in IdRange |-> NoFile]
    /\ cache0 = cache
    /\ testfile = NoFile
    /\ out = NoTables
    /\ pre = "none"
    /\ eid = 0
    /\ entity = JNull
    /\ downloaded = 0
    /\ skipped = 0
    /\ not_found = 0
    /\ errors = << >>
    /\ requests = [i \in IdRange |-> 0]
    /\ sleeps = 0
    /\ tripped = FALSE

\* --------------------------------------------------------------- actions

\* download_flavordb() is called (lines 107-117).
StartRun ==
    /\ pc \in {"idle", "returned", "done", "crashed", "killed"}
    /\ run < MaxRuns
    /\ run' = run + 1
    /\ pc' = "preflight"
    /\ pre' = "none"
    /\ eid' = 0
    /\ entity' = JNull
    /\ downloaded' = 0
    /\ skipped' = 0
    /\ not_found' = 0
    /\ errors' = << >>
    /\ requests' = [i \in IdRange |-> 0]
    /\ sleeps' = 0
    /\ tripped' = FALSE
    /\ cache0' = cache
    /\ UNCHANGED <<srv, cache, testfile, out>>

\* "text/html" in content_type or the stripped text starts with "<!" / "<html"
PreflightIsHtml(r) == r.ctype = "text/html" \/ r.form = "html"

\* How lines 119-202 end for the response r to the test request.
PreflightOutcome(r) ==
    CASE r.res = "http" -> "http"
      [] r.res = "exc" -> "transport"
      [] PreflightIsHtml(r) -> "html"
      [] r.form = "text" -> "unparseable"
      [] ~extract_entity(r.val).valid -> "missing"
      [] OTHER -> "pass"

\* SaveTestResponse with the dump left out.
SaveTestResponseDropped(outcome, r, tf) == tf

\* with open(raw_dir / "TEST_RESPONSE.json", "w") as f: json.dump(test_data, f)
SaveTestResponse(outcome, r, tf) ==
    IF outcome = "missing" THEN FullFile(r.val) ELSE tf

\* PreflightNext without the return of line 202.
PreflightNextFallsThrough(outcome) ==
    IF outcome \in {"pass", "missing"} THEN "sweep" ELSE "returned"

\* Every failed check of the preflight returns (lines 143, 166, 171, 202);
\* only a passed one reaches the sweep (line 204).
PreflightNext(outcome) == IF outcome = "pass" THEN "sweep" ELSE "returned"

\* The sweep's loop head after the iteration of ID e.
AfterId(e) == IF e >= MaxEntityId THEN "extract" ELSE "sweep"

\* The preflight request for entity ID 0 and its checks (lines 114-204);
\* m is what the service answers to it, whatever it answers to the sweep's
\* own request for ID 0 later on.
Preflight(m) ==
    /\ pc = "preflight"
    /\ LET r == Respond(m, 0)
           outcome == PreflightOutcome(r)
       IN  /\ requests' = [requests EXCEPT ![0] = @ + 1]
           /\ pre' = outcome
           /\ testfile' = SaveTestResponse(outcome, r, testfile)
           /\ pc' = PreflightNext(outcome)
    /\ UNCHANGED <<run, srv, cache, cache0, out, eid, entity, downloaded,
                   skipped, not_found, errors, sleeps, tripped>>

\* SweepSkip with the hit counted as a miss.
SweepSkipMiscounted ==
    /\ pc = "sweep"
    /\ Exists(cache[eid])
    /\ not_found' = not_found + 1
    /\ pc' = AfterId(eid)
    /\ eid' = IF eid >= MaxEntityId THEN eid ELSE eid + 1
    /\ UNCHANGED <<run, srv, cache, cache0, testfile, out, pre, entity,
                   downloaded, skipped, errors, requests, sleeps, tripped>>

\* if detail_file.exists(): skipped += 1; continue (lines 219-224).
SweepSkip ==
    /\ pc = "sweep"
    /\ Exists(cache[eid])
    /\ skipped' = skipped + 1
    /\ pc' = AfterId(eid)
    /\ eid' = IF eid >= MaxEntityId THEN eid ELSE eid + 1
    /\ UNCHANGED <<run, srv, cache, cache0, testfile, out, pre, entity,
                   downloaded, not_found, errors, requests, sleeps, tripped>>

\* IsNotFoundCode with 500 taken for an error.
IsNotFoundCodeNarrow(code) == code \in {404, 400}

\* e.code in (404, 400, 500)
IsNotFoundCode(code) == code \in {404, 400, 500}

\* f"HTTP {e.code}"
HttpMsg(code) ==
    CASE code = 400 -> "HTTP 400" [] code = 404 -> "HTTP 404"
      [] code = 500 -> "HTTP 500" [] code = 503 -> "HTTP 503"
      [] OTHER -> "HTTP"

\* SweepOutcome without the validity test of line 250.
SweepOutcomeUnvalidated(r) ==
    CASE r.res = "http" ->
            IF IsNotFoundCode(r.code) THEN "not_found" ELSE "http_error"
      [] r.res = "exc" -> "exception"
      [] r.form = "html" -> "not_found"
      [] r.form = "text" -> "not_found"
      [] OTHER -> "write"

\* Which branch of lines 227-283 the response r takes: "write" (line 256),
\* "not_found" (lines 242, 251, 269, 275), "http_error" (line 271) or
\* "exception" (line 277).
SweepOutcome(r) ==
    CASE r.res = "http" ->
            IF IsNotFoundCode(r.code) THEN "not_found" ELSE "http_error"
      [] r.res = "exc" -> "exception"
      [] r.form = "html" -> "not_found"
      [] r.form = "text" -> "not_found"
      [] ~extract_entity(r.val).valid -> "not_found"
      [] OTHER -> "write"

\* ErrorsAfter with the misses recorded as errors too.
ErrorsAfterEveryFailure(errs, e, r) ==
    CASE SweepOutcome(r) = "http_error" -> Append(errs, <<e, HttpMsg(r.code)>>)
      [] SweepOutcome(r) = "exception" -> Append(errs, <<e, r.msg>>)
      [] SweepOutcome(r) = "not_found" -> Append(errs, <<e, "not found">>)
      [] OTHER -> errs

\* errors after the response r to the request for ID e.
ErrorsAfter(errs, e, r) ==
    CASE SweepOutcome(r) = "http_error" -> Append(errs, <<e, HttpMsg(r.code)>>)
      [] SweepOutcome(r) = "exception" -> Append(errs, <<e, r.msg>>)
      [] OTHER -> errs

\* BreakerTest without the span condition.
BreakerTestCountOnly(errs, e) == Len(errs) >= BreakerCount

\* len(errors) >= 20 and all(eid - errors[-20][0] < 25 for _ in [1])
BreakerTest(errs, e) ==
    /\ Len(errs) >= BreakerCount
    /\ e - errs[Len(errs) - BreakerCount + 1][1] < BreakerSpan

\* The break of line 283: the test sits in the "except Exception" handler.
Bails(errs, e, r) == SweepOutcome(r) = "exception" /\ BreakerTest(errs, e)

\* The request for an uncached ID and what follows it, up to the next loop
\* head or to open(detail_file, "w") (lines 226-256 and 267-283).
SweepFetch ==
    /\ pc = "sweep"
    /\ ~Exists(cache[eid])
    /\ LET r == Respond(ModeAt(srv, eid), eid)
           outcome == SweepOutcome(r)
           errs == ErrorsAfter(errors, eid, r)
       IN  /\ requests' = [requests EXCEPT ![eid] = @ + 1]
           /\ errors' = errs
           /\ not_found' = IF outcome = "not_found" THEN not_found + 1
                           ELSE not_found
           /\ IF outcome = "write"
              THEN /\ entity' = extract_entity(r.val).entity
                   /\ cache' = [cache EXCEPT ![eid] = PartialFile]
                   /\ pc' = "writing"
                   /\ UNCHANGED <<eid, tripped>>
              ELSE IF Bails(errs, eid, r)
              THEN /\ pc' = "extract"
                   /\ tripped' = TRUE
                   /\ UNCHANGED <<eid, entity, cache>>
              ELSE /\ pc' = AfterId(eid)
                   /\ eid' = IF eid >= MaxEntityId THEN eid ELSE eid + 1
                   /\ UNCHANGED <<entity, cache, tripped>>
    /\ UNCHANGED <<run, srv, cache0, testfile, out, pre, downloaded, skipped,
                   sleeps>>

\* json.dump(entity, f, indent=2) completes, the file is closed;
\* downloaded += 1; time.sleep(0.15) (lines 257-265).
SweepWrite ==
    /\ pc = "writing"
    /\ cache' = [cache EXCEPT ![eid] = FullFile(entity)]
    /\ downloaded' = downloaded + 1
    /\ sleeps' = sleeps + 1
    /\ entity' = JNull
    /\ pc' = AfterId(eid)
    /\ eid' = IF eid >= MaxEntityId THEN eid ELSE eid + 1
    /\ UNCHANGED <<run, srv, cache0, testfile, out, pre, skipped, not_found,
                   errors, requests, tripped>>

\* The fold of the cached files into the four tables and their writing
\* (lines 293-377); a file that raises ends the function with no table
\* written.
Extract ==
    /\ pc = "extract"
    /\ LET tables == ExtractTables(cache, testfile)
       IN  IF tables.ok
           THEN /\ out' = [run |-> run, entities |-> tables.entities,
                           molecules |-> tables.molecules,
                           entity_mol |-> tables.entity_mol,
                           mol_desc |-> tables.mol_desc]
                /\ pc' = "done"
           ELSE /\ out' = out
                /\ pc' = "crashed"
    /\ UNCHANGED <<run, srv, cache, cache0, testfile, pre, eid, entity,
                   downloaded, skipped, not_found, errors, requests, sleeps,
                   tripped>>

\* The process is terminated (operator interrupt) while the routine runs.
Interrupt ==
    /\ pc \in {"preflight", "sweep", "writing", "extract"}
    /\ pc' = "killed"
    /\ UNCHANGED <<run, srv, cache, cache0, testfile, out, pre, eid, entity,
                   downloaded, skipped, not_found, errors, requests, sleeps,
                   tripped>>

\* Uninterrupted runs.
Next ==
    \/ StartRun
    \/ \E m \in Modes : Preflight(m)
    \/ SweepSkip
    \/ SweepFetch
    \/ SweepWrite
    \/ Extract

Spec == Init /\ [][Next]_vars

\* Runs that the operator may interrupt, against a service that answers
\* every ID the same way.
InitSteady == Init /\ srv.lo = srv.hi

NextInterrupt == Next \/ Interrupt

SpecInterrupt == InitSteady /\ [][NextInterrupt]_vars

\* ------------------------------------------------------------ properties

\* The messages of the exceptions that carry no HTTP status.
TransportMsgs == {"urlopen error", "timed out"}

\* The sweep is at the loop head with an ID that has no cache file.
AtUncached == pc = "sweep" /\ cache[eid].st = "absent"

\* What the service answers to the request the sweep is about to make.
SweepResp == Respond(ModeAt(srv, eid), eid)

\* The step ends the iteration of eid and moves to the next ID of the range.
Continues ==
    IF eid < MaxEntityId
    THEN pc' = "sweep" /\ eid' = eid + 1
    ELSE pc' = "extract"

RECURSIVE SumUpTo(_, _)
SumUpTo(f, n) == IF n < 0 THEN 0 ELSE f[n] + SumUpTo(f, n - 1)

\* The requests of the sweep of this run: all requests but the preflight's.
SweepRequests == SumUpTo(requests, MaxEntityId) - 1

\* C1: an ID whose cache file exists when the sweep reaches it costs no
\* request, adds one to skipped, changes no other counter and leaves the
\* cache as it is.
C1_CacheHitIsSkipped ==
    [][(pc = "sweep" /\ cache[eid].st # "absent") =>
          /\ skipped' = skipped + 1
          /\ requests' = requests
          /\ downloaded' = downloaded
          /\ not_found' = not_found
          /\ errors' = errors
          /\ sleeps' = sleeps
          /\ cache' = cache]_vars

\* A second run has skipped a file that the first run cached.
C1_Witness ==
    /\ skipped > 0
    /\ \E i \in IdRange :
          i < eid /\ cache0[i].st = "full" /\ cache[i] = cache0[i] /\ requests[i] = 0

\* The IDs of the errors entries that come from an HTTPError.
HttpErrorIds ==
    {errors[k][1] : k \in {j \in 1..Len(errors) : errors[j][2] \notin TransportMsgs}}

\* C2: when 20 consecutive IDs (the last of them not the last of the
\* range) each got an unexpected HTTP error, the sweep has left the loop
\* early, with at least 20 entries in errors.
C2_HttpErrorsTripBreaker ==
    (/\ pc = "extract"
     /\ \E a \in IdRange :
           /\ a + BreakerCount <= MaxEntityId
           /\ \A i \in a..(a + BreakerCount - 1) : i \in HttpErrorIds)
    => (tripped /\ eid < MaxEntityId /\ Len(errors) >= BreakerCount)

\* C3: once errors holds 20 entries, the sweep issues no further request.
C3_NoFetchAfterTwentyErrors ==
    [][(pc = "sweep" /\ Len(errors) >= BreakerCount) => requests' = requests]_vars

\* C4 as claimed: a transport failure adds one to not_found, leaves errors
\* alone and the sweep goes on.
C4_TransportCountsNotFound ==
    [][(AtUncached /\ SweepResp.res = "exc") =>
          /\ not_found' = not_found + 1
          /\ errors' = errors
          /\ Continues]_vars

\* C4 as amended: a transport failure appends (id, message) to errors and
\* changes no counter; the sweep stops there when errors then holds at least
\* 20 entries of which the 20th most recent is less than 25 IDs back, and
\* goes on with the next ID otherwise.
C4_TransportIsRecordedError ==
    [][(AtUncached /\ SweepResp.res = "exc") =>
          /\ errors' = Append(errors, <<eid, SweepResp.msg>>)
          /\ not_found' = not_found
          /\ downloaded' = downloaded
          /\ skipped' = skipped
          /\ cache' = cache
          /\ IF /\ Len(errors') >= BreakerCount
                /\ eid - errors'[Len(errors') - BreakerCount + 1][1] < BreakerSpan
             THEN tripped' /\ pc' = "extract"
             ELSE ~tripped' /\ Continues]_vars

\* Transport failures alone have stopped a sweep.
C4_Witness ==
    /\ tripped
    /\ Len(errors) = BreakerCount
    /\ \A k \in 1..Len(errors) : errors[k][2] \in TransportMsgs

\* The answers the sweep takes for "no such entity": HTTP 400, 404 or 500,
\* an HTML page, a body that is no JSON, or JSON in which extract_entity
\* finds no entity.
ExpectedMiss(r) ==
    \/ r.res = "http" /\ r.code \in {400, 404, 500}
    \/ r.res = "ok" /\ r.form \in {"html", "text"}
    \/ r.res = "ok" /\ r.form = "json" /\ ~extract_entity(r.val).valid

C6_PreflightGate ==
    pre \notin {"none", "pass"} =>
        /\ pc = "returned"
        /\ \A i \in IdRange : requests[i] = IF i = 0 THEN 1 ELSE 0
        /\ cache = cache0
        /\ out.run # run

\* A preflight failed over a cache directory that an earlier run filled.
C6_Witness ==
    /\ pc = "returned"
    /\ pre \in {"transport", "http", "html", "unparseable", "missing"}
    /\ out.run = 1
    /\ run = 2
    /\ \E i \in IdRange : cache[i].st = "full"

C8_SleepAfterEveryRequest == pc = "sweep" => sleeps = SweepRequests

\* C9: a later sweep never counts a partially written cache file as skipped.
C9_PartialNeverSkipped ==
    [][(pc = "sweep" /\ cache[eid].st = "partial") => skipped' = skipped]_vars

\* The molecule objects with a pubchem_id in the cached document of ID i.
CachedMols(i) ==
    IF cache[i].st = "full"
    THEN SelectSeq(Get(cache[i].doc, "molecules", JList(<< >>)).v, HasPubchemId)
    ELSE << >>

\* The cached IDs whose document lists pubchem_id p.
Holders(p) ==
    {i \in IdRange : \E k \in 1..Len(CachedMols(i)) : CachedMols(i)[k].v.pubchem_id = p}

\* The molecules row of p as the entity with the smallest ID gives it.
RowOfSmallestHolder(p) ==
    LET i == CHOOSE h \in Holders(p) : \A g \in Holders(p) : h <= g
        k == CHOOSE j \in 1..Len(CachedMols(i)) :
                /\ CachedMols(i)[j].v.pubchem_id = p
                /\ \A l \in 1..(j - 1) : CachedMols(i)[l].v.pubchem_id # p
    IN  MolRow(CachedMols(i)[k])

\* C10: in the tables of a finished run, the molecules row of every
\* pubchem_id carries the values of the cached entity with the numerically
\* smallest ID that lists it, and entity_molecule_edges has a row for every
\* cached entity that lists it.
C10_SmallestIdWins ==
    pc = "done" =>
        \A n \in 1..Len(out.molecules) :
            LET p == out.molecules[n][1]
            IN  /\ \A i \in Holders(p) :
                      \E e \in 1..Len(out.entity_mol) :
                          out.entity_mol[e] = <<cache[i].doc.v.entity_id, p>>
                /\ out.molecules[n] = RowOfSmallestHolder(p)

\* Every entity file of the cache directory that the step finds is left as
\* it is, the file the sweep has open for writing aside.
EntityFilesKept ==
    \A i \in IdRange :
        (cache[i].st # "absent" /\ ~(pc = "writing" /\ i = eid))
            => cache'[i] = cache[i]

\* C11 as claimed: no step rewrites or deletes a file that the cache
\* directory already holds, entity file or diagnostic file.
C11_AppendOnly ==
    [][EntityFilesKept /\ (testfile.st # "absent" => testfile' = testfile)]_vars

\* C11 as amended: no step rewrites or deletes an entity file that the
\* cache directory already holds; the diagnostic file changes only when a
\* preflight ends on missing fields, which writes it anew.
C11_EntityFilesAppendOnly ==
    [][/\ EntityFilesKept
       /\ testfile' # testfile =>
             (pc = "preflight" /\ pre' = "missing" /\ testfile'.st = "full")]_vars

\* A second run has swept and extracted over the files of the first, after
\* which every one of them is as the first run left it.
C11_Witness ==
    /\ pc = "done"
    /\ run = 2
    /\ out.run = 2
    /\ \E i \in IdRange : cache0[i].st = "full"
    /\ cache = cache0

\* The value holds both keys that make an entity document.
HasRequiredFields(d) ==
    IsDict(d) /\ HasKey(d, "entity_id") /\ HasKey(d, "molecules")

\* C12: when the mapping that extract_entity takes from a decoded answer
\* lacks the entity-id key or the molecules key, the answer is not accepted:
\* the sweep counts the ID as not found and writes no cache file.
C12_AcceptedOnlyWithBothKeys ==
    [][(/\ AtUncached
        /\ SweepResp.res = "ok"
        /\ SweepResp.form = "json"
        /\ ~HasRequiredFields(extract_entity(SweepResp.val).entity)) =>
          /\ ~extract_entity(SweepResp.val).valid
          /\ not_found' = not_found + 1
          /\ cache' = cache
          /\ pc' # "writing"]_vars

\* C13: within one run no entity ID is requested more than once, the
\* preflight's request included.
C13_OneRequestPerId == \A i \in IdRange : requests[i] <= 1

\* The cached documents in the order the extraction loop reads them.
Processed == json_files(cache, testfile)

\* data.get("molecules", []) of the k-th document read.
RawMols(files, k) == Get(files[k].doc, "molecules", JList(<< >>)).v

\* The molecule entries with a present pubchem_id, each named by the
\* position of its document and its position in the document.
Occurrences(files) ==
    UNION {{<<k, j>> : j \in {l \in 1..Len(RawMols(files, k)) :
                                 HasPubchemId(RawMols(files, k)[l])}} :
           k \in 1..Len(files)}

\* Entry a is processed before entry b.
Before(a, b) == a[1] < b[1] \/ (a[1] = b[1] /\ a[2] < b[2])

MolAt(files, o) == RawMols(files, o[1])[o[2]]

PidAt(files, o) == MolAt(files, o).v.pubchem_id

\* The first entry processed that carries pubchem_id p.
FirstOccurrence(files, p) ==
    CHOOSE o \in Occurrences(files) :
        /\ PidAt(files, o) = p
        /\ \A q \in Occurrences(files) : PidAt(files, q) = p => ~Before(q, o)

\* C14: in the tables of a finished run, molecules has a row for every
\* pubchem_id that occurs in the documents read and for no other, no two
\* rows share a pubchem_id, and each row carries the field values of the
\* first entry processed with that pubchem_id.
C14_OneRowPerMoleculeFirstWins ==
    pc = "done" =>
        LET files == Processed
            occ == Occurrences(files)
        IN  /\ {out.molecules[n][1] : n \in 1..Len(out.molecules)}
                  = {PidAt(files, o) : o \in occ}
            /\ \A n, m \in 1..Len(out.molecules) :
                  out.molecules[n][1] = out.molecules[m][1] => n = m
            /\ \A n \in 1..Len(out.molecules) :
                  out.molecules[n]
                      = MolRow(MolAt(files, FirstOccurrence(files, out.molecules[n][1])))

\* A run has finished over documents of which two list the same pubchem_id
\* with different field values.
C14_Witness ==
    /\ pc = "done"
    /\ \E a, b \in Occurrences(Processed) :
          /\ a[1] # b[1]
          /\ PidAt(Processed, a) = PidAt(Processed, b)
          /\ MolRow(MolAt(Processed, a)) # MolRow(MolAt(Processed, b))

\* The number of entries processed before entry o, plus one.
Rank(files, o) == Cardinality({q \in Occurrences(files) : Before(q, o)}) + 1

\* mol.get("flavor_profile", "") of an entry.
ProfileAt(files, o) == Get(MolAt(files, o), "flavor_profile", JStr(<< >>)).v

\* A document read lists an entry without pubchem_id.
SomeEntryLacksId(files) ==
    \E k \in 1..Len(files) : \E j \in 1..Len(RawMols(files, k)) :
        ~HasPubchemId(RawMols(files, k)[j])

\* C15: in the tables of a finished run, entity_molecule_edges holds one row
\* (entity_id, pubchem_id) for each molecule entry with a present
\* pubchem_id, in processing order and with repeats kept; every molecules
\* row and every molecule_descriptor_edges row stems from such an entry, so
\* an entry without pubchem_id adds nothing.
C15_EdgePerEntryWithId ==
    pc = "done" =>
        LET files == Processed
            occ == Occurrences(files)
        IN  /\ Len(out.entity_mol) = Cardinality(occ)
            /\ \A o \in occ :
                  out.entity_mol[Rank(files, o)]
                      = <<files[o[1]].doc.v.entity_id, PidAt(files, o)>>
            /\ \A n \in 1..Len(out.molecules) :
                  \E o \in occ : out.molecules[n] = MolRow(MolAt(files, o))
            /\ \A n \in 1..Len(out.mol_desc) :
                  \E o \in occ :
                      /\ out.mol_desc[n][1] = PidAt(files, o)
                      /\ out.mol_desc[n][2] \in Descriptors(ProfileAt(files, o))

\* A run has finished over documents of which one lists the same molecule
\* twice and one lists an entry without pubchem_id.
C15_Witness ==
    /\ pc = "done"
    /\ SomeEntryLacksId(Processed)
    /\ \E a, b \in Occurrences(Processed) :
          a[1] = b[1] /\ a[2] # b[2] /\ PidAt(Processed, a) = PidAt(Processed, b)
    /\ \E n, m \in 1..Len(out.entity_mol) : n # m /\ out.entity_mol[n] = out.entity_mol[m]

\* The first column of a table, as a set.
KeysOf(table) == {table[n][1] : n \in 1..Len(table)}

\* C16: in the tables of a finished run, every entity_molecule_edges row
\* names an entity_id of entities and a pubchem_id of molecules, and every
\* molecule_descriptor_edges row names a pubchem_id of molecules.
C16_ReferentialIntegrity ==
    pc = "done" =>
        /\ \A n \in 1..Len(out.entity_mol) :
              /\ out.entity_mol[n][1] \in KeysOf(out.entities)
              /\ out.entity_mol[n][2] \in KeysOf(out.molecules)
        /\ \A n \in 1..Len(out.mol_desc) :
              out.mol_desc[n][1] \in KeysOf(out.molecules)

\* A run has finished with edges of both kinds, fewer molecules than
\* entity-molecule edges and an entity without any edge.
C16_Witness ==
    /\ pc = "done"
    /\ out.mol_desc # << >>
    /\ Len(out.molecules) < Len(out.entity_mol)
    /\ \E n \in 1..Len(out.entities) :
          \A e \in 1..Len(out.entity_mol) : out.entity_mol[e][1] # out.entities[n][1]

\* The IDs whose cache file this run has created.
Created == {i \in IdRange : cache0[i].st = "absent" /\ cache[i].st # "absent"}

\* The IDs the sweep of this run has processed, the one it is writing
\* included.
ProcessedIds ==
    CASE pc = "sweep" -> 0..(eid - 1)
      [] pc \in {"writing", "extract", "done", "crashed"} -> 0..eid
      [] OTHER -> {}

\* The service's answer to the sweep's request for ID i is Ok with a body
\* that is classified as a valid entity: no HTML page, decodable JSON, and
\* extract_entity finds an entity in it.
FetchedValid(i) ==
    LET r == Respond(ModeAt(srv, i), i)
    IN  r.res = "ok" /\ r.form = "json" /\ extract_entity(r.val).valid

\* C17: throughout a sweep and after it, the cache files the run has created
\* are those of the processed IDs that were uncached and whose fetch came
\* back Ok with a body classified as a valid entity; once the sweep is over,
\* downloaded is the number of files it created.
C17_CreatedIffFetchedValid ==
    pc \in {"sweep", "writing", "extract", "done", "crashed"} =>
        /\ Created = {i \in ProcessedIds : cache0[i].st = "absent" /\ FetchedValid(i)}
        /\ pc # "sweep" /\ pc # "writing" => downloaded = Cardinality(Created)

\* A sweep is over that created files for some IDs and, after the first of
\* them, met an uncached ID for which it created none.
C17_Witness ==
    /\ pc = "extract"
    /\ downloaded > 0
    /\ \E i, j \in ProcessedIds :
          i < j /\ i \in Created /\ cache[j].st = "absent"

\* The number of IDs whose iteration the sweep of this run has completed.
ProcessedCount ==
    CASE pc \in {"sweep", "writing"} -> eid
      [] pc \in {"extract", "done", "crashed"} -> eid + 1
      [] OTHER -> 0

\* The counters add up to the IDs processed, and errors lists IDs in
\* strictly increasing order.
CountersPartition ==
    /\ downloaded + skipped + not_found + Len(errors) = ProcessedCount
    /\ \A k, l \in 1..Len(errors) : k < l => errors[k][1] < errors[l][1]

\* C18: a step that completes the iteration of an ID raises exactly one of
\* downloaded, skipped, not_found and len(errors), by one, and leaves the
\* other three; the step that opens the cache file changes none of them;
\* after every step the four add up to the number of IDs processed so far
\* and errors lists IDs in strictly increasing order.
C18_CounterPartition ==
    [][/\ ((pc = "sweep" /\ pc' # "writing") \/ pc = "writing") =>
             /\ downloaded' - downloaded \in {0, 1}
             /\ skipped' - skipped \in {0, 1}
             /\ not_found' - not_found \in {0, 1}
             /\ Len(errors') - Len(errors) \in {0, 1}
             /\ (downloaded' - downloaded) + (skipped' - skipped)
                   + (not_found' - not_found) + (Len(errors') - Len(errors)) = 1
       /\ (pc = "sweep" /\ pc' = "writing") =>
             /\ <<downloaded', skipped', not_found'>> = <<downloaded, skipped, not_found>>
             /\ errors' = errors
       /\ CountersPartition']_vars

\* A sweep over a partly filled cache directory has stopped early, with
\* IDs skipped and IDs recorded as errors.
C18_Witness ==
    /\ pc = "extract"
    /\ eid < MaxEntityId
    /\ skipped > 0
    /\ Len(errors) >= 2
    /\ downloaded + skipped + not_found + Len(errors) = eid + 1

\* C19: when the bail-out test has stopped the sweep at an ID, the 20 most
\* recent entries of errors are those of the 20 consecutive IDs that end at
\* that ID.
C19_BailsOnConsecutiveOnly ==
    (pc = "extract" /\ tripped) =>
        /\ Len(errors) >= BreakerCount
        /\ \A k \in 1..BreakerCount :
              errors[Len(errors) - BreakerCount + k][1] = eid - BreakerCount + k

\* C20: every file the extraction reads is a completely written entity file
\* {id}.json of the cache directory, and no extraction ends without tables:
\* a run whose preflight passed and whose sweep is over writes all four.
C20_ExtractorReadsOnlyEntities ==
    /\ pc \in {"extract", "done", "crashed"} =>
          \A k \in 1..Len(Processed) :
              /\ Processed[k].st = "full"
              /\ \E i \in IdRange : Processed[k].name = CacheName(i)
    /\ pc # "crashed"
    /\ (pc = "done" /\ pre = "pass") => out.run = run

====
